---- MODULE Spec2Model ----
(***************************************************************************)
(* Model of app.py, the Streamlit dashboard "Trader Performance & Market   *)
(* Sentiment".  One run of the script (top to bottom) is one step: the     *)
(* first run of a session uses the widget defaults, every later run is     *)
(* triggered by a change of one of the two sidebar multiselects.           *)
(*                                                                         *)
(* Data frames are records [cols, rows]: cols is the set of column names,  *)
(* rows a sequence of functions from cols to values.  Frames live in a     *)
(* heap of objects so that copying and aliasing are visible; script        *)
(* variables hold references (indices into the heap).                      *)
(*                                                                         *)
(* Not modelled: the chart and widget rendering calls (seaborn,            *)
(* matplotlib, altair, st.dataframe ...): they read the views and leave    *)
(* them unchanged.  Numbers are exact: a mean is kept as the fraction      *)
(* num/den, and 0/0 is NaN.                                                *)
(***************************************************************************)
EXTENDS Integers, Sequences, FiniteSets, TLC

VARIABLES
    files,               \* the two CSV files on disk (environment)
    cache,               \* the st.cache_data store of load_data
    loadRuns,            \* times the body of load_data ran to completion
    fromCache,           \* the latest load_data call was served by the cache
    loaded,              \* history: the tables computed by the first load
    returned,            \* the tables the latest load_data call returned
    heap,                \* data-frame objects of the latest run
    merged,              \* ref, line 31
    trader_features,     \* ref, line 31
    selected_sentiments, \* line 39
    selected_clusters,   \* line 46
    filtered_merged,     \* ref, line 52
    filtered_clusters,   \* ref, line 53
    total_trades,        \* line 61
    total_pnl,           \* line 62
    overall_win_rate,    \* line 63
    col3,                \* text of the "Overall Win Rate" metric, line 68
    win_rate,            \* line 102
    side_win,            \* line 109
    size_win,            \* line 117
    cluster_summary,     \* line 157
    top_traders,         \* line 161
    heatmap_data,        \* line 168
    error,               \* exception that ended the latest run, or "none"
    line                 \* line that raised; 0 before any run, LastLine when the run completed

vars == <<files, cache, loadRuns, fromCache, loaded, returned, heap, merged,
          trader_features, selected_sentiments, selected_clusters,
          filtered_merged, filtered_clusters, total_trades, total_pnl,
          overall_win_rate, col3, win_rate, side_win, size_win,
          cluster_summary, top_traders, heatmap_data, error, line>>

----------------------------------------------------------------------------
(* Bounds of the model                                                     *)

MaxTrades == 4        \* rows of the trade file, Spec
MaxBinTrades == 3     \* rows of the trade file, SpecBins
MaxLoadTrades == 2    \* rows of the trade file, SpecLoad
MaxLoadProfiles == 2  \* rows of the profile file, SpecLoad
MaxProfiles == 6      \* rows of the profile file, SpecTop
MaxLoadRuns == 2      \* loadRuns stops counting here

(* Program constants                                                       *)

TopN == 5             \* nlargest(5, 'total_pnl'), line 161
Quantiles == 4        \* pd.qcut(..., 4, ...), line 116
LastLine == 196       \* end of the script

NA == -1              \* a missing value (NaN) in a column of non-negative numbers
NaN == [num |-> 0, den |-> 0]   \* 0/0, the mean of nothing

----------------------------------------------------------------------------
(* Generic helpers                                                         *)

Min(a, b) == IF a < b THEN a ELSE b

SeqsUpTo(S, n) == UNION {[1..k -> S] : k \in 0..n}

Restrict(f, D) == [c \in D |-> f[c]]

RECURSIVE SumSeq(_)
SumSeq(s) == IF s = <<>> THEN 0 ELSE Head(s) + SumSeq(Tail(s))

Column(rows, c) == [i \in 1..Len(rows) |-> rows[i][c]]

Values(rows, c) == {rows[i][c] : i \in 1..Len(rows)}

RECURSIVE Flatten(_)
Flatten(ss) == IF ss = <<>> THEN <<>> ELSE Head(ss) \o Flatten(Tail(ss))

\* the elements of a finite set of integers in ascending order
RECURSIVE Ascending(_)
Ascending(S) ==
    IF S = {} THEN <<>>
    ELSE LET m == CHOOSE x \in S : \A y \in S : x <= y
         IN <<m>> \o Ascending(S \ {m})

----------------------------------------------------------------------------
(* pandas operations                                                       *)

Frame(cols, rows) == [cols |-> cols, rows |-> rows]

\* variant: the mean of nothing is reported as 0
MeanTimes100OrZero(rows, c) ==
    IF rows = <<>> THEN [num |-> 0, den |-> 1]
    ELSE [num |-> 100 * SumSeq(Column(rows, c)), den |-> Len(rows)]

\* Series.mean() * 100 of a 0/1 column: NaN (0/0) on an empty selection
MeanTimes100(rows, c) ==
    [num |-> 100 * SumSeq(Column(rows, c)), den |-> Len(rows)]

\* Series.mean() of a numeric column
Mean(rows, c) == [num |-> SumSeq(Column(rows, c)), den |-> Len(rows)]

\* variant: the mask is inverted
IsInInverted(df, c, sel) ==
    Frame(df.cols, SelectSeq(df.rows, LAMBDA r : r[c] \notin sel))

\* df[df[c].isin(sel)]: boolean indexing, the rows are copied in order
IsIn(df, c, sel) ==
    Frame(df.cols, SelectSeq(df.rows, LAMBDA r : r[c] \in sel))

\* df[[...]]: column selection
Project(df, cs) ==
    Frame(cs, [i \in 1..Len(df.rows) |-> Restrict(df.rows[i], cs)])

\* left.merge(right, on='account', how='left') where right has the columns
\* account and cluster: every left row is kept, once per matching right row
\* in right order, or once with a missing cluster when there is no match
MergeRow(l, right) ==
    LET matches == SelectSeq(right.rows, LAMBDA p : p["account"] = l["account"])
        with(cl) == [c \in DOMAIN l \cup {"cluster"} |->
                        IF c = "cluster" THEN cl ELSE l[c]]
    IN IF matches = <<>> THEN <<with(NA)>>
       ELSE [j \in 1..Len(matches) |-> with(matches[j]["cluster"])]

\* variant: an inner join, trades without a profile are dropped
MergeInner(left, right) ==
    Frame(left.cols \cup {"cluster"},
          Flatten([i \in 1..Len(left.rows) |->
              SelectSeq(MergeRow(left.rows[i], right), LAMBDA r : r["cluster"] # NA)]))

Merge(left, right) ==
    Frame(left.cols \cup {"cluster"},
          Flatten([i \in 1..Len(left.rows) |-> MergeRow(left.rows[i], right)]))

\* Series.unique() / algos.unique: first occurrences, in order
RECURSIVE Unique(_)
Unique(s) ==
    IF s = <<>> THEN <<>>
    ELSE LET init == Unique(SubSeq(s, 1, Len(s) - 1))
             x == s[Len(s)]
         IN IF \E i \in 1..Len(init) : init[i] = x THEN init ELSE Append(init, x)

\* ascending sort of a sequence of numbers
RECURSIVE SortAsc(_)
SortAsc(s) ==
    IF s = <<>> THEN <<>>
    ELSE LET init == SortAsc(SubSeq(s, 1, Len(s) - 1))
             x == s[Len(s)]
             k == Cardinality({i \in 1..Len(init) : init[i] <= x})
         IN SubSeq(init, 1, k) \o <<x>> \o SubSeq(init, k + 1, Len(init))

\* Series.quantile(k/q), linear interpolation, of the sorted values v; the
\* result is scaled by q so that it stays an integer.  NaN (NA) when v is empty
QuantileScaled(v, k, q) ==
    IF v = <<>> THEN NA
    ELSE LET pos == (Len(v) - 1) * k
             lo == pos \div q
             fr == pos % q
         IN IF fr = 0 THEN q * v[lo + 1]
            ELSE q * v[lo + 1] + fr * (v[lo + 2] - v[lo + 1])

\* pd.qcut(x, q, duplicates=...): the bin edges are the quantiles 0, 1/q, ..., 1;
\* repeated edges raise ValueError or are dropped; a value falls in the bin
\* (edge[i], edge[i+1]], the lowest edge included; codes are 0-based and NA
\* marks a value that falls in no bin (_bins_to_cuts)
qcut(x, q, duplicates) ==
    LET v == SortAsc(x)
        edges == [k \in 1..(q + 1) |-> QuantileScaled(v, k - 1, q)]
        unique_bins == Unique(edges)
        dup == Len(unique_bins) < Len(edges) /\ Len(edges) # 2
        bins == IF dup THEN unique_bins ELSE edges
        ids(xi) == IF q * xi = bins[1] THEN 1
                   ELSE Cardinality({j \in 1..Len(bins) : bins[j] < q * xi})
        code(xi) == IF ids(xi) = Len(bins) \/ ids(xi) = 0 THEN NA ELSE ids(xi) - 1
    IN IF dup /\ duplicates = "raise"
       THEN [raised |-> TRUE, codes |-> <<>>, categories |-> 0]
       ELSE [raised |-> FALSE,
             codes |-> [i \in 1..Len(x) |-> code(x[i])],
             categories |-> Len(bins) - 1]

\* filtered_merged['size_bin'] = ...: column assignment, in place
SetColumn(df, c, vals) ==
    Frame(df.cols \cup {c},
          [i \in 1..Len(df.rows) |->
              [d \in df.cols \cup {c} |-> IF d = c THEN vals[i] ELSE df.rows[i][d]]])

\* df.groupby(key)['win'].mean() * 100 over the given group keys
GroupWinRate(rows, key, keys) ==
    [g \in keys |-> MeanTimes100(SelectSeq(rows, LAMBDA r : r[key] = g), "win")]

\* df.groupby('cluster').mean(numeric_only=True): groups are the non-missing keys
NumericCols == {"total_trades", "win_rate", "total_pnl"}

GroupMeans(df) ==
    [g \in Values(df.rows, "cluster") \ {NA} |->
        [c \in df.cols \cap NumericCols |->
            Mean(SelectSeq(df.rows, LAMBDA r : r["cluster"] = g), c)]]

\* x.nlargest(n, 'total_pnl'), keep='first': the n largest in descending order,
\* equal values in their original order
RECURSIVE SortDescStable(_)
SortDescStable(rows) ==
    IF rows = <<>> THEN <<>>
    ELSE LET init == SortDescStable(SubSeq(rows, 1, Len(rows) - 1))
             x == rows[Len(rows)]
             k == Cardinality({i \in 1..Len(init) :
                                 init[i]["total_pnl"] >= x["total_pnl"]})
         IN SubSeq(init, 1, k) \o <<x>> \o SubSeq(init, k + 1, Len(init))

\* variant: keep='last', the later row wins among equal values
RECURSIVE SortDescLast(_)
SortDescLast(rows) ==
    IF rows = <<>> THEN <<>>
    ELSE LET init == SortDescLast(SubSeq(rows, 1, Len(rows) - 1))
             x == rows[Len(rows)]
             k == Cardinality({i \in 1..Len(init) :
                                 init[i]["total_pnl"] > x["total_pnl"]})
         IN SubSeq(init, 1, k) \o <<x>> \o SubSeq(init, k + 1, Len(init))

nlargest_keep_last(rows, n) ==
    LET s == SortDescLast(rows) IN SubSeq(s, 1, Min(n, Len(s)))

nlargest(rows, n) ==
    LET s == SortDescStable(rows) IN SubSeq(s, 1, Min(n, Len(s)))

\* trader_features.groupby('cluster').apply(lambda x: x.nlargest(5,'total_pnl'))
\* .reset_index(drop=True): the groups in ascending key order, concatenated
TopTraders(df) ==
    LET keys == Ascending(Values(df.rows, "cluster") \ {NA})
    IN Flatten([k \in 1..Len(keys) |->
          nlargest(SelectSeq(df.rows, LAMBDA r : r["cluster"] = keys[k]), TopN)])

\* variant: fill_value=0, a cell without observations becomes 0
PivotTableFillZero(df) ==
    LET obs == SelectSeq(df.rows, LAMBDA r : r["cluster"] # NA)
        at(c, s) == SelectSeq(obs, LAMBDA r : r["cluster"] = c /\ r["classification"] = s)
    IN [c \in Values(obs, "cluster"), s \in Values(obs, "classification") |->
          IF at(c, s) = <<>> THEN [num |-> 0, den |-> 1]
          ELSE MeanTimes100(at(c, s), "win")]

\* merged.pivot_table(index='cluster', columns='classification', values='win',
\* aggfunc='mean') * 100: rows with a missing cluster are left out, a cell
\* without observations stays NaN
PivotTable(df) ==
    LET obs == SelectSeq(df.rows, LAMBDA r : r["cluster"] # NA)
    IN [c \in Values(obs, "cluster"), s \in Values(obs, "classification") |->
          MeanTimes100(SelectSeq(obs,
              LAMBDA r : r["cluster"] = c /\ r["classification"] = s), "win")]

\* f"{x:.2f}%": two decimals, "nan%" for NaN (x is never negative here)
Digit(d) == ToString(d)

Format2f(x) ==
    IF x.den = 0 THEN "nan%"
    ELSE LET cents == (200 * x.num + x.den) \div (2 * x.den)
         IN ToString(cents \div 100) \o "." \o Digit((cents \div 10) % 10)
              \o Digit(cents % 10) \o "%"

----------------------------------------------------------------------------
(* The loader, lines 24-31                                                 *)

NoFrame == Frame({}, <<>>)
NoTables == [merged |-> NoFrame, trader_features |-> NoFrame]

\* variant: the loader checks every required column before it returns
load_data_validating(fs) ==
    IF ~fs.trades.exists \/ ~fs.profiles.exists
    THEN [error |-> "FileNotFoundError", tables |-> NoTables]
    ELSE IF ~({"account", "cluster"} \subseteq fs.profiles.frame.cols)
            \/ ~({"account", "classification", "closed_pnl", "win", "size_usd"}
                    \subseteq fs.trades.frame.cols)
    THEN [error |-> "KeyError", tables |-> NoTables]
    ELSE [error |-> "none",
          tables |-> [merged |-> Merge(fs.trades.frame,
                                       Project(fs.profiles.frame, {"account", "cluster"})),
                      trader_features |-> fs.profiles.frame]]

\* the body of load_data: two reads, the column selection, the left join
load_data(fs) ==
    IF ~fs.trades.exists \/ ~fs.profiles.exists
    THEN [error |-> "FileNotFoundError", tables |-> NoTables]
    ELSE IF ~({"account", "cluster"} \subseteq fs.profiles.frame.cols)
            \/ "account" \notin fs.trades.frame.cols
    THEN [error |-> "KeyError", tables |-> NoTables]
    ELSE [error |-> "none",
          tables |-> [merged |-> Merge(fs.trades.frame,
                                       Project(fs.profiles.frame, {"account", "cluster"})),
                      trader_features |-> fs.profiles.frame]]

\* variant: no memoization, the body runs at every call
cache_data_off(c, fs) ==
    [error |-> load_data(fs).error, tables |-> load_data(fs).tables, cache |-> c,
     ran |-> load_data(fs).error = "none"]

\* @st.cache_data: the body runs on a miss and its result is stored unless it
\* raised; a hit returns a copy of the stored value
cache_data(c, fs) ==
    IF c.hit
    THEN [error |-> "none", tables |-> c.tables, cache |-> c, ran |-> FALSE]
    ELSE LET r == load_data(fs)
         IN [error |-> r.error, tables |-> r.tables,
             cache |-> IF r.error = "none" THEN [hit |-> TRUE, tables |-> r.tables] ELSE c,
             ran |-> r.error = "none"]

----------------------------------------------------------------------------
(* Heap operations                                                         *)

\* variant: the frame is filtered in place and returned itself
BooleanIndexInPlace(h, ref, c, sel) ==
    [heap |-> [h EXCEPT ![ref] = IsIn(h[ref], c, sel)], ref |-> ref]

\* df[df[c].isin(sel)]: the result is a new object, the operand is untouched
BooleanIndex(h, ref, c, sel) ==
    [heap |-> Append(h, IsIn(h[ref], c, sel)), ref |-> Len(h) + 1]

\* df[c] = vals on the object behind ref
SetColumnAt(h, ref, c, vals) == [h EXCEPT ![ref] = SetColumn(h[ref], c, vals)]

----------------------------------------------------------------------------------------------------------------------------------------
(* One run of the script.  The script's variables are kept in a record e   *)
(* that the sections of the script update in turn; a section is skipped    *)
(* once an exception has been raised.                                      *)

Env0 ==
    [heap |-> <<>>, merged |-> 0, trader_features |-> 0,
     selected_sentiments |-> {}, selected_clusters |-> {},
     filtered_merged |-> 0, filtered_clusters |-> 0,
     total_trades |-> 0, total_pnl |-> 0, overall_win_rate |-> NaN, col3 |-> "",
     win_rate |-> <<>>, side_win |-> <<>>, size_win |-> <<>>,
     cluster_summary |-> <<>>, top_traders |-> <<>>, heatmap_data |-> <<>>,
     error |-> "none", line |-> LastLine]

Raise(e, ln, exc) == [e EXCEPT !.error = exc, !.line = ln]

\* line 31: merged, trader_features = load_data()
Loaded(e, ld) ==
    IF ld.error # "none" THEN Raise(e, 31, ld.error)
    ELSE [e EXCEPT !.heap = <<ld.tables.merged, ld.tables.trader_features>>,
                   !.merged = 1, !.trader_features = 2]

\* lines 38-53: the two multiselects (S and C are the widget values, the
\* defaults are all options) and the two filtered frames
Sidebar(e, S, C, defaults) ==
    IF e.error # "none" THEN e
    ELSE IF "classification" \notin e.heap[e.merged].cols THEN Raise(e, 38, "KeyError")
    ELSE LET sentiment_options == Values(e.heap[e.merged].rows, "classification")
             sel_s == IF defaults THEN sentiment_options ELSE S
             cluster_options == Values(e.heap[e.trader_features].rows, "cluster")
             sel_c == IF defaults THEN cluster_options ELSE C
             fm == BooleanIndex(e.heap, e.merged, "classification", sel_s)
             fc == BooleanIndex(fm.heap, e.trader_features, "cluster", sel_c)
         IN [e EXCEPT !.selected_sentiments = sel_s, !.selected_clusters = sel_c,
                      !.heap = fc.heap,
                      !.filtered_merged = fm.ref, !.filtered_clusters = fc.ref]

\* lines 61-68: the KPIs and the three metrics
Kpis(e) ==
    IF e.error # "none" THEN e
    ELSE LET df == e.heap[e.filtered_merged]
             e61 == [e EXCEPT !.total_trades = Len(df.rows)]
         IN IF "closed_pnl" \notin df.cols THEN Raise(e61, 62, "KeyError")
            ELSE IF "win" \notin df.cols
            THEN Raise([e61 EXCEPT !.total_pnl = SumSeq(Column(df.rows, "closed_pnl"))],
                       63, "KeyError")
            ELSE [e61 EXCEPT !.total_pnl = SumSeq(Column(df.rows, "closed_pnl")),
                             !.overall_win_rate = MeanTimes100(df.rows, "win"),
                             !.col3 = Format2f(MeanTimes100(df.rows, "win"))]

\* lines 102 and 109: win rate by sentiment and by side
GroupedWinRates(e) ==
    IF e.error # "none" THEN e
    ELSE LET df == e.heap[e.filtered_merged]
             e102 == [e EXCEPT !.win_rate =
                         GroupWinRate(df.rows, "classification",
                                      Values(df.rows, "classification"))]
         IN IF "side" \notin df.cols THEN Raise(e102, 109, "KeyError")
            ELSE [e102 EXCEPT !.side_win =
                         GroupWinRate(df.rows, "side", Values(df.rows, "side"))]

\* lines 116-117: the size_bin column and the win rate of every bin (empty
\* bins included)
SizeBins(e, duplicates) ==
    IF e.error # "none" THEN e
    ELSE LET df == e.heap[e.filtered_merged]
         IN IF "size_usd" \notin df.cols THEN Raise(e, 116, "KeyError")
            ELSE LET qc == qcut(Column(df.rows, "size_usd"), Quantiles, duplicates)
                     h == SetColumnAt(e.heap, e.filtered_merged, "size_bin", qc.codes)
                 IN IF qc.raised THEN Raise(e, 116, "ValueError")
                    ELSE [e EXCEPT !.heap = h,
                                   !.size_win = GroupWinRate(h[e.filtered_merged].rows,
                                                   "size_bin", 0..(qc.categories - 1))]

\* variant: duplicates='raise', the default of pd.qcut
TradeSizeVsWinRateStrict(e) == SizeBins(e, "raise")

TradeSizeVsWinRate(e) == SizeBins(e, "drop")

\* lines 157, 161 and 168: cluster summary, top traders, heatmap
ClusterInsights(e) ==
    IF e.error # "none" THEN e
    ELSE [e EXCEPT !.cluster_summary = GroupMeans(e.heap[e.filtered_clusters]),
                   !.top_traders = TopTraders(e.heap[e.trader_features]),
                   !.heatmap_data = PivotTable(e.heap[e.merged])]

Run(S, C, defaults) ==
    \E ld \in {cache_data(cache, files)} :
    \E e1 \in {Sidebar(Loaded(Env0, ld), S, C, defaults)} :
    \E e2 \in {Kpis(e1)} :
    \E e3 \in {GroupedWinRates(e2)} :
    \E e4 \in {TradeSizeVsWinRate(e3)} :
    \E r \in {ClusterInsights(e4)} :
       /\ cache' = ld.cache
       /\ loadRuns' = IF ld.ran THEN Min(loadRuns + 1, MaxLoadRuns) ELSE loadRuns
       /\ fromCache' = cache.hit
       /\ loaded' = IF ld.ran /\ ~loaded.set
                    THEN [set |-> TRUE, tables |-> ld.tables] ELSE loaded
       /\ returned' = ld.tables
       /\ heap' = r.heap
       /\ merged' = r.merged
       /\ trader_features' = r.trader_features
       /\ selected_sentiments' = r.selected_sentiments
       /\ selected_clusters' = r.selected_clusters
       /\ filtered_merged' = r.filtered_merged
       /\ filtered_clusters' = r.filtered_clusters
       /\ total_trades' = r.total_trades
       /\ total_pnl' = r.total_pnl
       /\ overall_win_rate' = r.overall_win_rate
       /\ col3' = r.col3
       /\ win_rate' = r.win_rate
       /\ side_win' = r.side_win
       /\ size_win' = r.size_win
       /\ cluster_summary' = r.cluster_summary
       /\ top_traders' = r.top_traders
       /\ heatmap_data' = r.heatmap_data
       /\ error' = r.error
       /\ line' = r.line
       /\ UNCHANGED files

\* a browser session opens the page (or reruns it after an exception): the
\* widgets have no state yet and take their defaults
StartSession == Run({}, {}, TRUE)

\* the user changes the sentiment multiselect (rendered by line 39)
ChangeSentiments(S) ==
    /\ line > 43
    /\ S \subseteq Values(returned.merged.rows, "classification")
    /\ S # selected_sentiments
    /\ Run(S, selected_clusters, FALSE)

\* the user changes the cluster multiselect (rendered by line 46)
ChangeClusters(C) ==
    /\ line > 50
    /\ C \subseteq Values(returned.trader_features.rows, "cluster")
    /\ C # selected_clusters
    /\ Run(selected_sentiments, C, FALSE)

Sentiments == {"Fear", "Greed"}
Clusters == {0, 1}

Next ==
    \/ StartSession
    \/ \E S \in SUBSET Sentiments : ChangeSentiments(S)
    \/ \E C \in SUBSET Clusters : ChangeClusters(C)

----------------------------------------------------------------------------
(* Inputs                                                                  *)

File(cols, rows) ==
    [exists |-> TRUE,
     frame |-> Frame(cols, [i \in 1..Len(rows) |-> Restrict(rows[i], cols)])]

Missing == [exists |-> FALSE, frame |-> NoFrame]

TradeCols == {"account", "side", "size_usd", "closed_pnl", "win", "classification"}
ProfileCols == {"account", "cluster", "total_trades", "win_rate", "total_pnl"}

Accounts == <<"A", "B", "C">>
Sides == <<"BUY", "SELL">>

\* fields a family of inputs does not vary follow from the row's position
AccountAt(i) == Accounts[((i - 1) % 3) + 1]
SideAt(i) == Sides[(((i - 1) \div 2) % 2) + 1]
SizeAt(i) == 10 * i
PnlAt(i) == IF i % 2 = 1 THEN 100 ELSE -20

\* a trade row; win follows from the sign of closed_pnl, as the upstream
\* preparation of the file derives it
Trade(account, side, size, pnl, class) ==
    [account |-> account, side |-> side, size_usd |-> size, closed_pnl |-> pnl,
     win |-> IF pnl > 0 THEN 1 ELSE 0, classification |-> class]

Profile(account, cluster, pnl) ==
    [account |-> account, cluster |-> cluster, total_trades |-> 10,
     win_rate |-> 50, total_pnl |-> pnl]

TwoProfiles == <<Profile("A", 0, 500), Profile("B", 1, -200)>>

StartState(fs) ==
    /\ files = fs
    /\ cache = [hit |-> FALSE, tables |-> NoTables]
    /\ loadRuns = 0
    /\ fromCache = FALSE
    /\ loaded = [set |-> FALSE, tables |-> NoTables]
    /\ returned = NoTables
    /\ heap = <<>>
    /\ merged = 0
    /\ trader_features = 0
    /\ selected_sentiments = {}
    /\ selected_clusters = {}
    /\ filtered_merged = 0
    /\ filtered_clusters = 0
    /\ total_trades = 0
    /\ total_pnl = 0
    /\ overall_win_rate = NaN
    /\ col3 = ""
    /\ win_rate = <<>>
    /\ side_win = <<>>
    /\ size_win = <<>>
    /\ cluster_summary = <<>>
    /\ top_traders = <<>>
    /\ heatmap_data = <<>>
    /\ error = "none"
    /\ line = 0

\* Spec: both files complete; the trades vary in classification and
\* closed_pnl; accounts A and B have a profile, account C has none
Init ==
    \E ts \in SeqsUpTo([closed_pnl : {-20, 100}, classification : Sentiments], MaxTrades) :
        StartState([trades |-> File(TradeCols, [i \in 1..Len(ts) |->
                        Trade(AccountAt(i), SideAt(i), SizeAt(i),
                              ts[i].closed_pnl, ts[i].classification)]),
                    profiles |-> File(ProfileCols, TwoProfiles)])

Spec == Init /\ [][Next]_vars

\* SpecBins: both files complete; the trades vary in classification and size_usd
InitBins ==
    \E ts \in SeqsUpTo([size_usd : {1, 2, 3}, classification : Sentiments], MaxBinTrades) :
        StartState([trades |-> File(TradeCols, [i \in 1..Len(ts) |->
                        Trade(AccountAt(i), SideAt(i), ts[i].size_usd,
                              PnlAt(i), ts[i].classification)]),
                    profiles |-> File(ProfileCols, TwoProfiles)])

SpecBins == InitBins /\ [][Next]_vars

\* SpecLoad: either file may be missing or lack one column; the accounts of
\* the trades vary, and so do the accounts (repeats included) and clusters of
\* the profiles
LoadTradeFiles ==
    {Missing} \cup
    {File(cols, [i \in 1..Len(as) |->
                    Trade(as[i], SideAt(i), SizeAt(i), PnlAt(i), "Fear")]) :
        cols \in {TradeCols} \cup {TradeCols \ {c} : c \in TradeCols},
        as \in SeqsUpTo({"A", "B"}, MaxLoadTrades)}

LoadProfileFiles ==
    {Missing} \cup
    {File(cols, [i \in 1..Len(ps) |-> Profile(ps[i].account, ps[i].cluster, 100 * i)]) :
        cols \in {ProfileCols, ProfileCols \ {"account"}, ProfileCols \ {"cluster"}},
        ps \in SeqsUpTo([account : {"A", "B"}, cluster : Clusters], MaxLoadProfiles)}

InitLoad ==
    \E t \in LoadTradeFiles, p \in LoadProfileFiles :
        StartState([trades |-> t, profiles |-> p])

SpecLoad == InitLoad /\ [][Next]_vars

\* SpecTop: both files complete, one trade; the profiles (one per account)
\* vary in cluster and total_pnl
TopTemplates ==
    {[cluster |-> 0, total_pnl |-> 1], [cluster |-> 0, total_pnl |-> 2],
     [cluster |-> 1, total_pnl |-> 1]}

InitTop ==
    \E ps \in SeqsUpTo(TopTemplates, MaxProfiles) :
        StartState([trades |-> File(TradeCols,
                        <<Trade("A", "BUY", 50, 100, "Fear")>>),
                    profiles |-> File(ProfileCols, [i \in 1..Len(ps) |->
                        Profile("T" \o ToString(i), ps[i].cluster, ps[i].total_pnl)])])

SpecTop == InitTop /\ [][Next]_vars

----------------------------------------------------------------------------
(* Properties                                                              *)

\* the source tables as the first load computed them
TradeRecords == loaded.tables.merged
TraderProfiles == loaded.tables.trader_features

Picked(rows, c, sel) == {j \in 1..Len(rows) : rows[j][c] \in sel}

RECURSIVE SumOver(_, _, _)
SumOver(J, rows, c) ==
    IF J = {} THEN 0
    ELSE LET j == CHOOSE k \in J : TRUE
         IN rows[j][c] + SumOver(J \ {j}, rows, c)

AllSentiments == Values(TradeRecords.rows, "classification")
AllClusters == Values(TraderProfiles.rows, "cluster")

\* C1: the filtered trades are exactly the rows of the joined trade table
\* whose classification is selected, in their order, whatever the cluster
\* selection is
C1_FilteredTrades ==
    line > 53 =>
        LET src == TradeRecords
            view == heap[filtered_merged].rows
            idx == Ascending(Picked(src.rows, "classification", selected_sentiments))
        IN /\ Len(view) = Len(idx)
           /\ \A i \in 1..Len(view) :
                 /\ Restrict(view[i], src.cols) = src.rows[idx[i]]
                 /\ view[i]["classification"] \in selected_sentiments

C1_Witness ==
    /\ line = LastLine
    /\ fromCache
    /\ selected_sentiments = {"Fear"}
    /\ selected_clusters = {1}
    /\ Len(heap[filtered_merged].rows) = 2
    /\ Len(TradeRecords.rows) = 4

\* C2: after every run the two source tables are what the first load
\* computed, the size_bin assignment included
C2_SourceTablesUnchanged ==
    line > 31 =>
        /\ heap[merged] = TradeRecords
        /\ heap[trader_features] = TraderProfiles
        /\ "size_bin" \notin heap[merged].cols

C2_Witness ==
    /\ line = LastLine
    /\ fromCache
    /\ "size_bin" \in heap[filtered_merged].cols
    /\ Len(heap[filtered_merged].rows) = 1
    /\ Len(heap[merged].rows) = 3
    /\ selected_clusters = {}

UniqueAccounts(rows) ==
    \A i, j \in 1..Len(rows) : rows[i]["account"] = rows[j]["account"] => i = j

\* C4: when account is a unique key of the profiles, the join has one row per
\* trade, in order, with the trade's own columns unchanged and the cluster of
\* the profile with the same account, or a missing cluster when there is none
C4_LeftJoin ==
    (loaded.set /\ UniqueAccounts(files.profiles.frame.rows)) =>
        LET T == files.trades.frame
            P == files.profiles.frame.rows
            M == TradeRecords
        IN /\ Len(M.rows) = Len(T.rows)
           /\ M.cols = T.cols \cup {"cluster"}
           /\ \A i \in 1..Len(T.rows) :
                 /\ Restrict(M.rows[i], T.cols) = T.rows[i]
                 /\ \A j \in 1..Len(P) :
                       P[j]["account"] = T.rows[i]["account"]
                           => M.rows[i]["cluster"] = P[j]["cluster"]
                 /\ (\A j \in 1..Len(P) : P[j]["account"] # T.rows[i]["account"])
                           => M.rows[i]["cluster"] = NA

C4_Witness ==
    /\ loaded.set
    /\ UniqueAccounts(files.profiles.frame.rows)
    /\ Len(files.profiles.frame.rows) = 1
    /\ Len(TradeRecords.rows) = 2
    /\ TradeRecords.rows[1]["cluster"] = NA
    /\ TradeRecords.rows[2]["cluster"] = 1

RequiredOfTrades == {"account", "classification", "closed_pnl", "win", "size_usd"}
RequiredOfProfiles == {"account", "cluster"}

FileMissing == ~files.trades.exists \/ ~files.profiles.exists

ColumnAbsent ==
    \/ ~(RequiredOfTrades \subseteq files.trades.frame.cols)
    \/ ~(RequiredOfProfiles \subseteq files.profiles.frame.cols)

JoinColumnAbsent ==
    \/ "account" \notin files.trades.frame.cols
    \/ ~(RequiredOfProfiles \subseteq files.profiles.frame.cols)

FirstRead(c) ==
    IF c = "classification" THEN 38
    ELSE IF c = "closed_pnl" THEN 62
    ELSE IF c = "win" THEN 63
    ELSE 116

C6_NeverRaises ==
    line > 0 =>
        /\ error = "none" /\ line = LastLine
        /\ total_trades = 0 =>
              /\ overall_win_rate.den = 0
              /\ DOMAIN win_rate = {} /\ DOMAIN side_win = {} /\ DOMAIN size_win = {}
        /\ selected_clusters = {} => DOMAIN cluster_summary = {}
        /\ \A b \in DOMAIN size_win :
              (\A i \in 1..total_trades : heap[filtered_merged].rows[i]["size_bin"] # b)
                  => size_win[b].den = 0

C6_Witness ==
    /\ line = LastLine
    /\ selected_sentiments = {}
    /\ selected_clusters = {}
    /\ Len(TradeRecords.rows) = 3
    /\ DOMAIN size_win = {}

RowOf(rows, r) == CHOOSE j \in 1..Len(rows) : rows[j] = r

\* C7: for every cluster of the unfiltered profiles the top traders hold
\* min(5, size of the cluster) rows of that cluster, no row twice, the ones
\* with the largest total_pnl, in descending order, equal values in file
\* order and the earlier row winning a tie at the cut; the blocks follow each
\* other in cluster order
C7_TopTraders ==
    line = LastLine =>
        LET P == TraderProfiles.rows
            T == top_traders
            members(c) == {j \in 1..Len(P) : P[j]["cluster"] = c}
            block(c) == {i \in 1..Len(T) : T[i]["cluster"] = c}
        IN /\ \A i \in 1..Len(T) : \E j \in 1..Len(P) : P[j] = T[i]
           /\ \A i, k \in 1..Len(T) : T[i] = T[k] => i = k
           /\ \A c \in AllClusters :
                 /\ Cardinality(block(c)) = Min(TopN, Cardinality(members(c)))
                 /\ \A i \in block(c), j \in members(c) :
                       (\A k \in block(c) : T[k] # P[j]) =>
                           \/ T[i]["total_pnl"] > P[j]["total_pnl"]
                           \/ /\ T[i]["total_pnl"] = P[j]["total_pnl"]
                              /\ RowOf(P, T[i]) < j
           /\ \A i, k \in 1..Len(T) :
                 i < k =>
                    /\ T[i]["cluster"] <= T[k]["cluster"]
                    /\ T[i]["cluster"] = T[k]["cluster"] =>
                          \/ T[i]["total_pnl"] > T[k]["total_pnl"]
                          \/ /\ T[i]["total_pnl"] = T[k]["total_pnl"]
                             /\ RowOf(P, T[i]) < RowOf(P, T[k])

C7_Witness ==
    /\ line = LastLine
    /\ fromCache
    /\ selected_clusters = {}
    /\ selected_sentiments = {}
    /\ Len(TraderProfiles.rows) = 6
    /\ AllClusters = {0}
    /\ Len(top_traders) = TopN
    /\ TraderProfiles.rows[6]["total_pnl"] = top_traders[TopN]["total_pnl"]
    /\ top_traders[1]["total_pnl"] > top_traders[TopN]["total_pnl"]

\* C8: every heatmap cell is 100 times the mean of win over the rows of the
\* unfiltered joined table with that cluster and classification; the table
\* has a row for every cluster and a column for every classification seen
\* with a cluster, and a cell without rows is NaN
C8_Heatmap ==
    line = LastLine =>
        LET M == TradeRecords.rows
            cell(c, s) == {j \in 1..Len(M) :
                              M[j]["cluster"] = c /\ M[j]["classification"] = s}
            wins(c, s) == {j \in cell(c, s) : M[j]["win"] = 1}
        IN /\ \A c \in Clusters, s \in Sentiments :
                 cell(c, s) # {} => <<c, s>> \in DOMAIN heatmap_data
           /\ \A p \in DOMAIN heatmap_data :
                 /\ \E s \in Sentiments : cell(p[1], s) # {}
                 /\ \E c \in Clusters : cell(c, p[2]) # {}
                 /\ heatmap_data[p].den = Cardinality(cell(p[1], p[2]))
                 /\ heatmap_data[p].num = 100 * Cardinality(wins(p[1], p[2]))

C8_Witness ==
    /\ line = LastLine
    /\ fromCache
    /\ selected_sentiments = {}
    /\ selected_clusters = {1}
    /\ DOMAIN heatmap_data = Clusters \X Sentiments
    /\ heatmap_data[0, "Fear"] = [num |-> 100, den |-> 2]
    /\ heatmap_data[0, "Greed"] = NaN

\* C9: the KPIs are the count, the closed_pnl sum and 100 times the mean of
\* win of the filtered trades; the win rate lies in [0,100] when there are
\* trades, and is NaN, shown as "nan%", when there are none
C9_Kpis ==
    line = LastLine =>
        LET M == TradeRecords.rows
            J == Picked(M, "classification", selected_sentiments)
            W == {j \in J : M[j]["win"] = 1}
        IN /\ total_trades = Cardinality(J)
           /\ total_pnl = SumOver(J, M, "closed_pnl")
           /\ J # {} =>
                 /\ overall_win_rate.den = Cardinality(J)
                 /\ overall_win_rate.num = 100 * Cardinality(W)
                 /\ 0 <= overall_win_rate.num
                 /\ overall_win_rate.num <= 100 * overall_win_rate.den
                 /\ col3 # "nan%"
           /\ J = {} =>
                 /\ overall_win_rate = NaN
                 /\ col3 = "nan%"

C9_Witness ==
    /\ line = LastLine
    /\ selected_sentiments = {}
    /\ Len(TradeRecords.rows) = 4
    /\ total_trades = 0
    /\ col3 = "nan%"

\* C10, as stated: every trade of a non-empty filtered view lies in exactly
\* one of at most four bins
C10_Partition ==
    (line = LastLine /\ total_trades > 0) =>
        /\ Cardinality(DOMAIN size_win) <= Quantiles
        /\ \A i \in 1..total_trades :
              heap[filtered_merged].rows[i]["size_bin"] \in DOMAIN size_win

====
